---- MODULE Spec2Model ----
(***************************************************************************)
(* The DNS domain-name wire codec of trust-dns: Name::read, Name::emit,    *)
(* Name::zone_of (src/rr/domain.rs) and the Query codec (src/op/query.rs). *)
(* A label is the sequence of its bytes, a name the sequence of its        *)
(* labels, a buffer a sequence of bytes: offset o of a buffer is element   *)
(* o + 1 of the sequence.                                                  *)
(***************************************************************************)
EXTENDS Integers, Sequences, FiniteSets, TLC

VARIABLES enc, log, dec, got, zone, qry, build, prs, mem

vars == <<enc, log, dec, got, zone, qry, build, prs, mem>>

(***************************************************************************)
(* Bounds of the model.                                                    *)
(***************************************************************************)
MaxLabels == 2
MaxEmits == 3
MaxPtrEmits == 4
MaxLenLabels == 5
MaxLenEmits == 2
MaxDictEmits == 4
MaxBigEmits == 3
MaxNames == 3
MaxNameOps == 4
MaxBuf == 5
MaxReads == 2
MaxText == 4
StackLimit == 8

(***************************************************************************)
(* Program constants.                                                      *)
(***************************************************************************)
MaxLabelLen == 63
MaxNameLen == 255
PointerMarker == 49152
PointerMask == 16383
TopBitsUnit == 64
TopBitsPointer == 3
ByteRange == 256

SeqsUpTo(S, n) == UNION {[1..k -> S] : k \in 0..n}

Fill(b, n) == [i \in 1..n |-> b]

(***************************************************************************)
(* The labels the inputs are drawn from.                                   *)
(***************************************************************************)
la == <<97>>
lbc == <<98, 99>>
lheart == <<226, 153, 165>>
lempty == <<>>
L63 == Fill(120, MaxLabelLen)
L64 == Fill(120, MaxLabelLen + 1)
lra == <<114, 97>>
lrb == <<114, 98>>
lrc == <<114, 99>>
lz == <<122>>

Names == SeqsUpTo({la, lbc, lempty}, MaxLabels)
           \cup {<<L64>>, <<la, L64>>, <<la, L64, lbc>>, <<la, lheart>>}

Suffix(name, k) == SubSeq(name, k, Len(name))

Suffixes(name) == {Suffix(name, k) : k \in 1..(Len(name) + 1)}

PtrNames == Suffixes(<<lz, lra, lrb, lrc>>) \cup {<<lz>>, <<lz, lrc>>, <<lra, lrb>>}

LenNames == SeqsUpTo({la, L63}, MaxLenLabels)

(***************************************************************************)
(* BinEncoder: the output buffer and the compression dictionary            *)
(* name_pointers (label sequence -> offset of its first emission).         *)
(***************************************************************************)
NoPointers == [n \in {} |-> 0]

NewEncoder == [buffer |-> <<>>, name_pointers |-> NoPointers]

EncLen(e) == Len(e.buffer)

EmitByte(e, b) == [e EXCEPT !.buffer = Append(@, b)]

EmitU16(e, v) == [e EXCEPT !.buffer = @ \o <<v \div ByteRange, v % ByteRange>>]

EmitCharacterData(e, data) == [e EXCEPT !.buffer = (@ \o <<Len(data)>>) \o data]

HasLabelPointer(e, labels) == labels \in DOMAIN e.name_pointers

GetLabelPointer(e, labels) == e.name_pointers[labels]

StoreLabelPointerAny(e, labels) ==
  [e EXCEPT !.name_pointers = (labels :> EncLen(e)) @@ @]

\* The dictionary's offsets are bounded to 14 bits: a suffix that begins
\* beyond the largest pointer offset gets no entry.
StoreLabelPointer(e, labels) ==
  IF EncLen(e) <= PointerMask
  THEN [e EXCEPT !.name_pointers = (labels :> EncLen(e)) @@ @]
  ELSE e

(***************************************************************************)
(* Name::emit.  EmitLabels is the while-let loop over the remaining        *)
(* labels; end records the way the loop was left.                          *)
(***************************************************************************)
PointerValue(loc) == PointerMarker + (loc % (PointerMask + 1))

LabelTooLong(label) == Len(label) > MaxLabelLen

NameTooLong(length) == length > MaxNameLen

RECURSIVE EmitLabelsNoLookup(_, _)
EmitLabelsNoLookup(e, labels) ==
  IF labels = <<>>
  THEN [enc |-> e, end |-> "root"]
  ELSE IF LabelTooLong(Head(labels))
  THEN [enc |-> e, end |-> "label_too_long"]
  ELSE EmitLabelsNoLookup(
         EmitCharacterData(IF HasLabelPointer(e, labels) THEN e
                           ELSE StoreLabelPointer(e, labels), Head(labels)),
         Tail(labels))

RECURSIVE EmitLabelsLookupRest(_, _)
EmitLabelsLookupRest(e, labels) ==
  IF labels = <<>>
  THEN [enc |-> e, end |-> "root"]
  ELSE IF HasLabelPointer(e, Tail(labels)) /\ HasLabelPointer(e, labels)
  THEN [enc |-> EmitU16(EmitCharacterData(e, Head(labels)),
                        PointerValue(GetLabelPointer(e, Tail(labels)))),
        end |-> "pointer"]
  ELSE IF HasLabelPointer(e, labels)
  THEN [enc |-> EmitU16(e, PointerValue(GetLabelPointer(e, labels))),
        end |-> "pointer"]
  ELSE IF LabelTooLong(Head(labels))
  THEN [enc |-> e, end |-> "label_too_long"]
  ELSE EmitLabelsLookupRest(
         EmitCharacterData(StoreLabelPointer(e, labels), Head(labels)),
         Tail(labels))

RECURSIVE EmitLabelsStoreFirst(_, _)
EmitLabelsStoreFirst(e, labels) ==
  IF labels = <<>>
  THEN [enc |-> e, end |-> "root"]
  ELSE IF HasLabelPointer(e, labels)
  THEN LET stored == StoreLabelPointer(e, labels) IN
       [enc |-> EmitU16(stored, PointerValue(GetLabelPointer(stored, labels))),
        end |-> "pointer"]
  ELSE IF LabelTooLong(Head(labels))
  THEN [enc |-> e, end |-> "label_too_long"]
  ELSE EmitLabelsStoreFirst(
         EmitCharacterData(StoreLabelPointer(e, labels), Head(labels)),
         Tail(labels))

RECURSIVE EmitLabels(_, _)
EmitLabels(e, labels) ==
  IF labels = <<>>
  THEN [enc |-> e, end |-> "root"]
  ELSE IF HasLabelPointer(e, labels)
  THEN [enc |-> EmitU16(e, PointerValue(GetLabelPointer(e, labels))),
        end |-> "pointer"]
  ELSE IF LabelTooLong(Head(labels))
  THEN [enc |-> e, end |-> "label_too_long"]
  ELSE EmitLabels(EmitCharacterData(StoreLabelPointer(e, labels), Head(labels)),
                  Tail(labels))

Emit(name, e) ==
  LET w == EmitLabels(e, name) IN
  CASE w.end = "pointer" -> [enc |-> w.enc, res |-> "Ok", end |-> "pointer"]
    [] w.end = "label_too_long" ->
         [enc |-> w.enc, res |-> "LabelBytesTooLong", end |-> "error"]
    [] OTHER ->
         LET z == EmitByte(w.enc, 0) IN
         [enc |-> z,
          res |-> IF NameTooLong(EncLen(z) - EncLen(e))
                  THEN "DomainNameTooLong" ELSE "Ok",
          end |-> "root"]

(***************************************************************************)
(* BinDecoder: a buffer and the index of the next byte.                    *)
(***************************************************************************)
NewDecoder(bytes) == [buffer |-> bytes, index |-> 0]

CloneAt(d, location) == [buffer |-> d.buffer, index |-> location]

AtEnd(d) == d.index >= Len(d.buffer)

Peek(d) == d.buffer[d.index + 1]

Pop(d) ==
  IF AtEnd(d) THEN [ok |-> FALSE, dec |-> d, val |-> 0]
  ELSE [ok |-> TRUE, dec |-> [d EXCEPT !.index = @ + 1], val |-> Peek(d)]

ReadU16(d) ==
  IF d.index + 2 > Len(d.buffer) THEN [ok |-> FALSE, dec |-> d, val |-> 0]
  ELSE [ok |-> TRUE, dec |-> [d EXCEPT !.index = @ + 2],
        val |-> d.buffer[d.index + 1] * ByteRange + d.buffer[d.index + 2]]

ReadCharacterData(d) ==
  LET n == Pop(d) IN
  IF ~n.ok \/ n.dec.index + n.val > Len(d.buffer)
  THEN [ok |-> FALSE, dec |-> d, val |-> <<>>]
  ELSE [ok |-> TRUE, dec |-> [d EXCEPT !.index = n.dec.index + n.val],
        val |-> SubSeq(d.buffer, n.dec.index + 1, n.dec.index + n.val)]

(***************************************************************************)
(* Name::read.  NextState is the LabelLengthOrPointer arm; ReadFrom is the *)
(* loop, one recursion per label and one per pointer followed.  depth is   *)
(* the number of nested Name::read calls: the code has no bound on it, and *)
(* a chain deeper than StackLimit ends the process on stack exhaustion.    *)
(***************************************************************************)
TopBits(byte) == byte \div TopBitsUnit

NextState(d) ==
  IF AtEnd(d) \/ Peek(d) = 0 THEN "Root"
  ELSE IF TopBits(Peek(d)) = TopBitsPointer THEN "Pointer"
  ELSE IF Peek(d) <= MaxLabelLen THEN "Label"
  ELSE "Unreachable"

ReadResult(status, labels, d) == [status |-> status, labels |-> labels, dec |-> d]

RECURSIVE ReadFromMoveCursor(_, _, _)
ReadFromMoveCursor(d, labels, depth) ==
  LET state == NextState(d) IN
  CASE state = "Unreachable" -> ReadResult("Panic", <<>>, d)
    [] state = "Root" ->
         LET p == Pop(d) IN
         IF p.ok THEN ReadResult("Ok", labels, p.dec)
         ELSE ReadResult("DecodeError", <<>>, d)
    [] state = "Label" ->
         LET c == ReadCharacterData(d) IN
         IF c.ok THEN ReadFromMoveCursor(c.dec, Append(labels, c.val), depth)
         ELSE ReadResult("DecodeError", <<>>, d)
    [] OTHER ->
         LET u == ReadU16(d) IN
         IF ~u.ok THEN ReadResult("DecodeError", <<>>, d)
         ELSE IF depth >= StackLimit THEN ReadResult("StackOverflow", <<>>, d)
         ELSE LET pointed == ReadFromMoveCursor(CloneAt(d, u.val % (PointerMask + 1)),
                                      <<>>, depth + 1) IN
              IF pointed.status = "Ok"
              THEN ReadResult("Ok", labels \o pointed.labels, pointed.dec)
              ELSE ReadResult(pointed.status, <<>>, u.dec)

RECURSIVE ReadFromEofOk(_, _, _)
ReadFromEofOk(d, labels, depth) ==
  LET state == NextState(d) IN
  CASE state = "Unreachable" -> ReadResult("Panic", <<>>, d)
    [] state = "Root" ->
         LET p == Pop(d) IN
         ReadResult("Ok", labels, p.dec)
    [] state = "Label" ->
         LET c == ReadCharacterData(d) IN
         IF c.ok THEN ReadFromEofOk(c.dec, Append(labels, c.val), depth)
         ELSE ReadResult("DecodeError", <<>>, d)
    [] OTHER ->
         LET u == ReadU16(d) IN
         IF ~u.ok THEN ReadResult("DecodeError", <<>>, d)
         ELSE IF depth >= StackLimit THEN ReadResult("StackOverflow", <<>>, d)
         ELSE LET pointed == ReadFromEofOk(CloneAt(d, u.val % (PointerMask + 1)),
                                      <<>>, depth + 1) IN
              IF pointed.status = "Ok"
              THEN ReadResult("Ok", labels \o pointed.labels, u.dec)
              ELSE ReadResult(pointed.status, <<>>, u.dec)

RECURSIVE ReadFrom(_, _, _)
ReadFrom(d, labels, depth) ==
  LET state == NextState(d) IN
  CASE state = "Unreachable" -> ReadResult("Panic", <<>>, d)
    [] state = "Root" ->
         LET p == Pop(d) IN
         IF p.ok THEN ReadResult("Ok", labels, p.dec)
         ELSE ReadResult("DecodeError", <<>>, d)
    [] state = "Label" ->
         LET c == ReadCharacterData(d) IN
         IF c.ok THEN ReadFrom(c.dec, Append(labels, c.val), depth)
         ELSE ReadResult("DecodeError", <<>>, d)
    [] OTHER ->
         LET u == ReadU16(d) IN
         IF ~u.ok THEN ReadResult("DecodeError", <<>>, d)
         ELSE IF depth >= StackLimit THEN ReadResult("StackOverflow", <<>>, d)
         ELSE LET pointed == ReadFrom(CloneAt(d, u.val % (PointerMask + 1)),
                                      <<>>, depth + 1) IN
              IF pointed.status = "Ok"
              THEN ReadResult("Ok", labels \o pointed.labels, u.dec)
              ELSE ReadResult(pointed.status, <<>>, u.dec)

Read(d) == ReadFrom(d, <<>>, 0)

(***************************************************************************)
(* The encoder under test and the decoder reading its bytes back, as in    *)
(* tests::test_pointer: names are emitted one after another into one       *)
(* encoder, then a decoder over as_bytes() reads them back in order.       *)
(* log records each emit call: the name, the result, the way the name was  *)
(* ended, the buffer length before and after and the dictionary the call   *)
(* began with.  got records each read call.                                *)
(***************************************************************************)
Closed == [open |-> FALSE, d |-> NewDecoder(<<>>)]

IdleZone == [self |-> <<>>, other |-> <<>>, res |-> "none"]

IdleQuery == [query |-> [name |-> <<>>, query_type |-> 0, query_class |-> 0],
              emitted |-> "none", read |-> "none", fail |-> "none",
              got |-> [name |-> <<>>, query_type |-> 0, query_class |-> 0]]

IdleParse == [local |-> <<>>, origin |-> [some |-> FALSE, val |-> <<>>],
              res |-> "none", labels |-> <<>>]

NoOp == [op |-> "none", self |-> 0, other |-> 0, added |-> <<>>,
         before |-> <<>>, addrs |-> <<>>]

IdleMem == [heap |-> <<>>, names |-> <<>>, ops |-> 0, last |-> NoOp]

NamesIdle == prs = IdleParse /\ mem = IdleMem

EncoderIdle == enc = NewEncoder /\ log = <<>>

DecoderIdle == dec = Closed /\ got = <<>>

EmitStep(U, max) ==
  /\ ~dec.open
  /\ Len(log) < max
  /\ \E name \in U :
       LET r == Emit(name, enc) IN
       /\ enc' = r.enc
       /\ log' = Append(log, [name |-> name, res |-> r.res, end |-> r.end,
                              start |-> EncLen(enc), stop |-> EncLen(r.enc),
                              ptrs |-> enc.name_pointers])
  /\ UNCHANGED <<dec, got, zone, qry, build, prs, mem>>

AsBytes ==
  /\ ~dec.open
  /\ log # <<>>
  /\ dec' = [open |-> TRUE, d |-> NewDecoder(enc.buffer)]
  /\ UNCHANGED <<enc, log, got, zone, qry, build, prs, mem>>

ReadStep(max) ==
  /\ dec.open
  /\ Len(got) < max
  /\ IF got = <<>> THEN TRUE ELSE got[Len(got)].status = "Ok"
  /\ LET r == Read(dec.d) IN
     /\ dec' = [dec EXCEPT !.d = r.dec]
     /\ got' = Append(got, [status |-> r.status, labels |-> r.labels,
                            start |-> dec.d.index, stop |-> r.dec.index])
  /\ UNCHANGED <<enc, log, zone, qry, build, prs, mem>>

EmitName == EmitStep(Names, MaxEmits)

ReadBack == ReadStep(Len(log))

Init ==
  /\ EncoderIdle
  /\ DecoderIdle
  /\ zone = IdleZone
  /\ qry = IdleQuery
  /\ build = "release"
  /\ NamesIdle

Next == EmitName \/ AsBytes \/ ReadBack

Spec == Init /\ [][Next]_vars

(***************************************************************************)
(* The names of tests::test_pointer and their suffixes and windows.        *)
(***************************************************************************)
PtrEmitName == EmitStep(PtrNames, MaxPtrEmits)

NextPtr == PtrEmitName \/ AsBytes \/ ReadBack

SpecPtr == Init /\ [][NextPtr]_vars

(***************************************************************************)
(* Names of up to MaxLenLabels labels of 1 or 63 bytes: the 255-byte limit.*)
(***************************************************************************)
LenEmitName == EmitStep(LenNames, MaxLenEmits)

NextLen == LenEmitName \/ AsBytes \/ ReadBack

SpecLen == Init /\ [][NextLen]_vars

(***************************************************************************)
(* What the claims speak of.                                               *)
(***************************************************************************)
RECURSIVE Wire(_)
Wire(labels) ==
  IF labels = <<>> THEN <<>>
  ELSE (<<Len(Head(labels))>> \o Head(labels)) \o Wire(Tail(labels))

RECURSIVE WireLen(_)
WireLen(labels) ==
  IF labels = <<>> THEN 0 ELSE 1 + Len(Head(labels)) + WireLen(Tail(labels))

Known(name, ptrs) == {k \in 1..Len(name) : Suffix(name, k) \in DOMAIN ptrs}

FirstKnown(name, ptrs) ==
  CHOOSE k \in Known(name, ptrs) : \A j \in Known(name, ptrs) : k <= j

Cost(name, ptrs) ==
  IF Known(name, ptrs) = {} THEN WireLen(name) + 1
  ELSE WireLen(SubSeq(name, 1, FirstKnown(name, ptrs) - 1)) + 2

Written(i) == SubSeq(enc.buffer, log[i].start + 1, log[i].stop)

EmittedBefore(i) ==
  \E j \in 1..(i - 1) : log[j].name = log[i].name /\ log[j].res = "Ok"

TestNames == << <<lra, lrb, lrc>>, <<lrb, lrc>>, <<lrc>>, <<lz, lra, lrb, lrc>> >>

TestLengths == <<10, 12, 14, 18>>

IsTestRun == Len(log) = Len(TestNames) /\ \A i \in 1..Len(log) : log[i].name = TestNames[i]

CostRule ==
  /\ \A i \in 1..Len(log) :
       log[i].res = "Ok" => log[i].stop - log[i].start = Cost(log[i].name, log[i].ptrs)
  /\ IsTestRun => \A i \in 1..Len(log) : log[i].stop = TestLengths[i]

C8_LongestSuffix ==
  \A i \in 1..Len(log) :
    log[i].end = "pointer" =>
      /\ Known(log[i].name, log[i].ptrs) # {}
      /\ LET k == FirstKnown(log[i].name, log[i].ptrs)
             v == PointerValue(log[i].ptrs[Suffix(log[i].name, k)]) IN
         Written(i) = Wire(SubSeq(log[i].name, 1, k - 1))
                        \o <<v \div ByteRange, v % ByteRange>>

C8_Witness ==
  \E i \in 1..Len(log) :
    /\ log[i].end = "pointer"
    /\ Cardinality(Known(log[i].name, log[i].ptrs)) >= 2
    /\ FirstKnown(log[i].name, log[i].ptrs) > 1

(***************************************************************************)
(* Name::read on arbitrary buffers: a decoder at any offset of any buffer  *)
(* over ReadBytes (a cursor made by BinDecoder::new or by clone).          *)
(***************************************************************************)
ReadBytes == {0, 1, 2, 64, 97, 192}

Buffers == SeqsUpTo(ReadBytes, MaxBuf)

InitRead ==
  /\ EncoderIdle
  /\ got = <<>>
  /\ \E b \in Buffers : \E i \in 0..Len(b) :
       dec = [open |-> TRUE, d |-> CloneAt(NewDecoder(b), i)]
  /\ zone = IdleZone
  /\ qry = IdleQuery
  /\ build = "release"
  /\ NamesIdle

ReadName == ReadStep(MaxReads)

NextRead == ReadName

SpecRead == InitRead /\ [][NextRead]_vars

Reserved(byte) == byte >= TopBitsUnit /\ TopBits(byte) # TopBitsPointer

StartsReserved(i) ==
  /\ got[i].start < Len(dec.d.buffer)
  /\ Reserved(dec.d.buffer[got[i].start + 1])

\* C5: a read that meets a byte with top bits 01 or 10 where a label length
\* or pointer is expected returns a decode error; no read panics.
C5_ReservedIsError ==
  \A i \in 1..Len(got) :
    /\ got[i].status # "Panic"
    /\ StartsReserved(i) => got[i].status = "DecodeError"

\* C6: every read returns (a name or a decode error) after a bounded number
\* of indirections: none recurses until the stack is exhausted.
C6_ReadTerminates ==
  \A i \in 1..Len(got) : got[i].status \in {"Ok", "DecodeError", "Panic"}

(***************************************************************************)
(* Name::zone_of.  The loop index i runs over 1..self_len; name_len - i is *)
(* a usize subtraction, which panics when it underflows in a build with    *)
(* overflow checks (debug, the test profile) and wraps without them        *)
(* (release), to an index beyond every vector, where get returns None.     *)
(***************************************************************************)
None == [some |-> FALSE, val |-> <<>>]

Some(v) == [some |-> TRUE, val |-> v]

Get(labels, index) ==
  IF index < Len(labels) THEN Some(labels[index + 1]) ELSE None

RECURSIVE ZoneOfFrom(_, _, _, _)
ZoneOfFrom(self, name, i, checks) ==
  IF i > Len(self) THEN "true"
  ELSE IF Len(name) < i /\ checks THEN "panic"
  ELSE LET other == IF Len(name) < i THEN None ELSE Get(name, Len(name) - i) IN
       IF Get(self, Len(self) - i) # other THEN "false"
       ELSE ZoneOfFrom(self, name, i + 1, checks)

ZoneOf(self, name, checks) == ZoneOfFrom(self, name, 1, checks)

ZoneNames == SeqsUpTo({la, lbc}, MaxLabels)

InitZone ==
  /\ EncoderIdle
  /\ DecoderIdle
  /\ \E s \in ZoneNames, o \in ZoneNames : zone = [self |-> s, other |-> o, res |-> "none"]
  /\ qry = IdleQuery
  /\ build \in {"debug", "release"}
  /\ NamesIdle

CallZoneOf ==
  /\ zone.res = "none"
  /\ zone' = [zone EXCEPT !.res = ZoneOf(zone.self, zone.other, build = "debug")]
  /\ UNCHANGED <<enc, log, dec, got, qry, build, prs, mem>>

NextZone == CallZoneOf

SpecZone == InitZone /\ [][NextZone]_vars

IsSuffixOf(s, o) == Len(s) <= Len(o) /\ s = Suffix(o, Len(o) - Len(s) + 1)

\* C9: zone_of returns a boolean without failing, true exactly when self is
\* no longer than other and equals other's last len(self) labels.
C9_ZoneOf ==
  zone.res # "none" =>
    zone.res = (IF IsSuffixOf(zone.self, zone.other) THEN "true" ELSE "false")

(***************************************************************************)
(* Emit and read back (Spec, SpecLen).                                     *)
(***************************************************************************)
AllEmitted == \A i \in 1..Len(log) : log[i].res = "Ok"

\* C1: after names were emitted successfully one after another into one
\* encoder, reading names from offset 0 returns the same names in order.
C1_SequenceRoundTrip ==
  AllEmitted =>
    \A i \in 1..Len(got) : got[i].status = "Ok" /\ got[i].labels = log[i].name

\* C2: a name with labels of at most 63 bytes and at most 255 encoded bytes,
\* emitted into a fresh encoder and read from the produced bytes, reads
\* back equal, the empty name and names with a zero-length label included.
C2_RoundTrip ==
  (/\ Len(log) = 1
   /\ \A k \in 1..Len(log[1].name) : Len(log[1].name[k]) <= MaxLabelLen
   /\ WireLen(log[1].name) + 1 <= MaxNameLen
   /\ got # <<>>)
    => log[1].res = "Ok" /\ got[1].status = "Ok" /\ got[1].labels = log[1].name

HasLongLabel(name) == \E k \in 1..Len(name) : Len(name[k]) > MaxLabelLen

\* C3: in every encoder state, emitting a name that contains a label longer
\* than 63 bytes returns LabelBytesTooLong, also on a second attempt.
C3_LongLabelFails ==
  \A i \in 1..Len(log) :
    HasLongLabel(log[i].name) => log[i].res = "LabelBytesTooLong"

\* C4: an emit that writes more than 255 bytes for one name returns
\* DomainNameTooLong, whether the name ends with the root byte or a pointer.
C4_LongNameFails ==
  \A i \in 1..Len(log) :
    log[i].stop - log[i].start > MaxNameLen => log[i].res = "DomainNameTooLong"

(***************************************************************************)
(* The Query codec (src/op/query.rs).  RecordType and DNSClass are 16-bit  *)
(* codes; reading one fails when fewer than two bytes are left or the code *)
(* is none of the enumeration's.                                           *)
(***************************************************************************)
RecordTypeCodes == {1, 2, 28}

DNSClassCodes == {1, 3}

\* ok is whether the enumeration's emit succeeds; a failed emit writes
\* nothing.
CodeEmit(code, e, ok) ==
  IF ok THEN [enc |-> EmitU16(e, code), res |-> "Ok"]
  ELSE [enc |-> e, res |-> "EncodeError"]

CodeRead(codes, d) ==
  LET u == ReadU16(d) IN
  IF u.ok /\ u.val \in codes THEN [status |-> "Ok", val |-> u.val, dec |-> u.dec]
  ELSE [status |-> "DecodeError", val |-> 0, dec |-> u.dec]

QueryEmitAll(q, e, fail) ==
  LET n == Emit(q.name, e)
      t == CodeEmit(q.query_type, n.enc, fail # "type")
      c == CodeEmit(q.query_class, t.enc, fail # "class")
  IN [enc |-> c.enc,
      res |-> IF n.res # "Ok" THEN n.res
              ELSE IF t.res # "Ok" THEN t.res ELSE c.res]

QueryEmit(q, e, fail) ==
  LET n == Emit(q.name, e) IN
  IF n.res # "Ok" THEN [enc |-> n.enc, res |-> n.res]
  ELSE LET t == CodeEmit(q.query_type, n.enc, fail # "type") IN
       IF t.res # "Ok" THEN t
       ELSE CodeEmit(q.query_class, t.enc, fail # "class")

QueryRead(d) ==
  LET n == Read(d) IN
  IF n.status # "Ok"
  THEN [status |-> n.status, query |-> IdleQuery.got, dec |-> n.dec]
  ELSE LET t == CodeRead(RecordTypeCodes, n.dec) IN
       IF t.status # "Ok"
       THEN [status |-> t.status, query |-> IdleQuery.got, dec |-> t.dec]
       ELSE LET c == CodeRead(DNSClassCodes, t.dec) IN
            IF c.status # "Ok"
            THEN [status |-> c.status, query |-> IdleQuery.got, dec |-> c.dec]
            ELSE [status |-> "Ok", dec |-> c.dec,
                  query |-> [name |-> n.labels, query_type |-> t.val,
                             query_class |-> c.val]]

lwww == <<119, 119, 119>>
lexample == <<101, 120, 97, 109, 112, 108, 101>>
lcom == <<99, 111, 109>>

QueryNames == Names \cup {<<lwww, lexample, lcom>>}

Queries == [name : QueryNames, query_type : RecordTypeCodes, query_class : DNSClassCodes]

InitQuery ==
  /\ EncoderIdle
  /\ DecoderIdle
  /\ zone = IdleZone
  /\ \E q \in Queries : qry = [IdleQuery EXCEPT !.query = q]
  /\ build = "release"
  /\ NamesIdle

QueryEmitStep ==
  /\ qry.emitted = "none"
  /\ LET r == QueryEmit(qry.query, enc, qry.fail) IN
     /\ enc' = r.enc
     /\ qry' = [qry EXCEPT !.emitted = r.res]
  /\ UNCHANGED <<log, dec, got, zone, build, prs, mem>>

QueryReadStep ==
  /\ qry.emitted = "Ok"
  /\ qry.read = "none"
  /\ LET r == QueryRead(NewDecoder(enc.buffer)) IN
     /\ dec' = [open |-> TRUE, d |-> r.dec]
     /\ qry' = [qry EXCEPT !.read = r.status, !.got = r.query]
  /\ UNCHANGED <<enc, log, got, zone, build, prs, mem>>

NextQuery == QueryEmitStep \/ QueryReadStep

SpecQuery == InitQuery /\ [][NextQuery]_vars

U16Bytes(v) == <<v \div ByteRange, v % ByteRange>>

\* C10: a query whose name encodes, emitted into a fresh encoder and read
\* back, gives an equal {name, query_type, query_class}; the bytes are the
\* name's encoding, then the type code, then the class code.
C10_QueryRoundTrip ==
  /\ qry.emitted = "Ok" =>
       enc.buffer = (Emit(qry.query.name, NewEncoder).enc.buffer
                       \o U16Bytes(qry.query.query_type))
                       \o U16Bytes(qry.query.query_class)
  /\ qry.read # "none" => qry.read = "Ok" /\ qry.got = qry.query

(***************************************************************************)
(* Name::parse.  A text is the sequence of its bytes (ASCII here); split   *)
(* gives the pieces between the dots, empty ones included, and the loop    *)
(* adds each non-empty piece lowercased.                                   *)
(***************************************************************************)
Dot == 46

ParseChars == {Dot, 65, 97, 98}

Texts == SeqsUpTo(ParseChars, MaxText)

Origins == {None, Some(<<>>), Some(<<lcom>>), Some(<<la, lbc>>)}

RECURSIVE SplitFrom(_, _, _)
SplitFrom(text, piece, pieces) ==
  IF text = <<>> THEN Append(pieces, piece)
  ELSE IF Head(text) = Dot THEN SplitFrom(Tail(text), <<>>, Append(pieces, piece))
  ELSE SplitFrom(Tail(text), Append(piece, Head(text)), pieces)

Split(text) == SplitFrom(text, <<>>, <<>>)

ToLowercase(s) == [i \in 1..Len(s) |-> IF s[i] >= 65 /\ s[i] <= 90 THEN s[i] + 32 ELSE s[i]]

EndsWithDot(text) == text # <<>> /\ text[Len(text)] = Dot

RECURSIVE AddPieces(_, _)
AddPieces(build_labels, pieces) ==
  IF pieces = <<>> THEN build_labels
  ELSE AddPieces(IF Len(Head(pieces)) > 0
                 THEN Append(build_labels, ToLowercase(Head(pieces)))
                 ELSE build_labels,
                 Tail(pieces))

RECURSIVE AddPiecesKeepEmpty(_, _)
AddPiecesKeepEmpty(build_labels, pieces) ==
  IF pieces = <<>> THEN build_labels
  ELSE AddPiecesKeepEmpty(Append(build_labels, ToLowercase(Head(pieces))), Tail(pieces))

ParseKeepEmpty(local, origin) ==
  LET built == AddPiecesKeepEmpty(<<>>, Split(local)) IN
  IF EndsWithDot(local) THEN [res |-> "Ok", labels |-> built]
  ELSE IF ~origin.some THEN [res |-> "OriginIsUndefined", labels |-> <<>>]
  ELSE [res |-> "Ok", labels |-> built \o origin.val]

Parse(local, origin) ==
  LET built == AddPieces(<<>>, Split(local)) IN
  IF EndsWithDot(local) THEN [res |-> "Ok", labels |-> built]
  ELSE IF ~origin.some THEN [res |-> "OriginIsUndefined", labels |-> <<>>]
  ELSE [res |-> "Ok", labels |-> built \o origin.val]

InitParse ==
  /\ EncoderIdle
  /\ DecoderIdle
  /\ zone = IdleZone
  /\ qry = IdleQuery
  /\ build = "release"
  /\ mem = IdleMem
  /\ \E t \in Texts, o \in Origins : prs = [IdleParse EXCEPT !.local = t, !.origin = o]

CallParse ==
  /\ prs.res = "none"
  /\ LET r == Parse(prs.local, prs.origin) IN
     prs' = [prs EXCEPT !.res = r.res, !.labels = r.labels]
  /\ UNCHANGED <<enc, log, dec, got, zone, qry, build, mem>>

NextParse == CallParse

SpecParse == InitParse /\ [][NextParse]_vars

(* The maximal dot-free, non-empty runs of a text, by their first and last place. *)
Runs(text) ==
  {r \in (1..Len(text)) \X (1..Len(text)) :
     /\ r[1] <= r[2]
     /\ \A k \in r[1]..r[2] : text[k] # Dot
     /\ r[1] = 1 \/ text[r[1] - 1] = Dot
     /\ r[2] = Len(text) \/ text[r[2] + 1] = Dot}

Components(text) ==
  [k \in 1..Cardinality(Runs(text)) |->
     LET r == CHOOSE x \in Runs(text) :
                Cardinality({y \in Runs(text) : y[1] < x[1]}) = k - 1 IN
     ToLowercase(SubSeq(text, r[1], r[2]))]

Relative(text) == text = <<>> \/ text[Len(text)] # Dot

\* C11: parse fails with OriginIsUndefined exactly when the text does not
\* end with '.' and origin is None; otherwise it returns the non-empty
\* dot-separated components, lowercased, in order, followed by origin's
\* labels when the text does not end with '.'.
C11_Parse ==
  prs.res # "none" =>
    IF Relative(prs.local) /\ ~prs.origin.some
    THEN prs.res = "OriginIsUndefined"
    ELSE /\ prs.res = "Ok"
         /\ prs.labels = Components(prs.local)
                           \o (IF Relative(prs.local) THEN prs.origin.val ELSE <<>>)

C11_Witness ==
  /\ prs.res = "Ok"
  /\ Len(Components(prs.local)) >= 2
  /\ \E k \in 1..Len(prs.local) : prs.local[k] = 65
  /\ \E k \in 1..(Len(prs.local) - 1) : prs.local[k] = Dot /\ prs.local[k + 1] = Dot
  /\ Relative(prs.local)
  /\ prs.origin.val # <<>>

(***************************************************************************)
(* The run of literal labels at a place of a buffer, as the wire format    *)
(* defines it: where it ends, how (root byte, pointer field, end of        *)
(* buffer, reserved byte) and how many labels it holds.                    *)
(***************************************************************************)
RECURSIVE Scan(_, _, _)
Scan(buf, idx, count) ==
  IF idx >= Len(buf) THEN [kind |-> "eof", stop |-> idx, count |-> count]
  ELSE LET b == buf[idx + 1] IN
       IF b = 0 THEN [kind |-> "root", stop |-> idx + 1, count |-> count]
       ELSE IF b >= 192
       THEN IF idx + 2 <= Len(buf)
            THEN [kind |-> "pointer", stop |-> idx + 2, count |-> count]
            ELSE [kind |-> "eof", stop |-> idx, count |-> count]
       ELSE IF b >= 64 THEN [kind |-> "reserved", stop |-> idx, count |-> count]
       ELSE IF idx + 1 + b <= Len(buf) THEN Scan(buf, idx + 1 + b, count + 1)
       ELSE [kind |-> "eof", stop |-> idx, count |-> count]

RunAt(i) == Scan(dec.d.buffer, got[i].start, 0)

PointerTarget(buf, stop) == (buf[stop - 1] * 256 + buf[stop]) % 16384

\* C12: after a successful read the cursor stands right after the literal
\* labels at the original place (1 + length each) plus 1 for the root byte
\* or 2 for the pointer field, however the pointer's target is decoded.
C12_CursorAdvance ==
  \A i \in 1..Len(got) :
    got[i].status = "Ok" =>
      LET run == RunAt(i)
          lits == SubSeq(got[i].labels, 1, run.count) IN
      /\ run.kind \in {"root", "pointer"}
      /\ run.count <= Len(got[i].labels)
      /\ got[i].stop = got[i].start + WireLen(lits)
                                     + (IF run.kind = "root" THEN 1 ELSE 2)
      /\ SubSeq(dec.d.buffer, got[i].start + 1, got[i].start + WireLen(lits)) = Wire(lits)
      /\ dec.d.index = got[Len(got)].stop

C12_Witness ==
  \E i \in 1..Len(got) :
    /\ got[i].status = "Ok"
    /\ got[i].start > 0
    /\ RunAt(i).kind = "pointer"
    /\ got[i].stop = got[i].start + 2
    /\ Scan(dec.d.buffer, PointerTarget(dec.d.buffer, RunAt(i).stop), 0).kind = "pointer"

RECURSIVE Unterminated(_, _, _)
Unterminated(buf, idx, fuel) ==
  LET run == Scan(buf, idx, 0) IN
  \/ run.kind = "eof"
  \/ /\ run.kind = "pointer"
     /\ fuel > 0
     /\ Unterminated(buf, PointerTarget(buf, run.stop), fuel - 1)

\* C16: a read whose label run, at the cursor or at a pointer's target,
\* meets the end of the buffer before a zero byte or a complete pointer
\* field returns a decode error, never a name.
C16_EofIsError ==
  \A i \in 1..Len(got) :
    Unterminated(dec.d.buffer, got[i].start, StackLimit)
      => got[i].status = "DecodeError"

C16_Witness ==
  /\ Len(got) = 2
  /\ got[1].status = "Ok"
  /\ got[2].status = "DecodeError"
  /\ RunAt(2).kind = "eof"
  /\ RunAt(2).count >= 1

(***************************************************************************)
(* The compression dictionary over emits that succeed and emits that fail: *)
(* names with a common suffix, some of them with a 64-byte label.          *)
(***************************************************************************)
DictNames == Suffixes(<<lz, la, lbc>>) \cup {<<la, L64>>, <<lz, la, L64>>}

DictEmitName == EmitStep(DictNames, MaxDictEmits)

NextDict == DictEmitName \/ AsBytes \/ ReadBack

SpecDict == Init /\ [][NextDict]_vars

ReadAt(offset) == Read(CloneAt(NewDecoder(enc.buffer), offset))

\* C13: after any emit calls, successful or failed, decoding at the offset
\* of every dictionary entry yields exactly the entry's suffix.
C13_EntriesValid ==
  \A s \in DOMAIN enc.name_pointers :
    /\ ReadAt(enc.name_pointers[s]).status = "Ok"
    /\ ReadAt(enc.name_pointers[s]).labels = s

PtrsAfter(i) == IF i < Len(log) THEN log[i + 1].ptrs ELSE enc.name_pointers

Created(i) == DOMAIN PtrsAfter(i) \ DOMAIN log[i].ptrs

\* C14: an emit never changes or removes an entry the dictionary held, and
\* an entry it creates is for a suffix of its name that had none, at the
\* offset where that suffix's first label is written.
C14_EntriesStay ==
  \A i \in 1..Len(log) :
    /\ \A s \in DOMAIN log[i].ptrs :
         s \in DOMAIN PtrsAfter(i) /\ PtrsAfter(i)[s] = log[i].ptrs[s]
    /\ \A s \in Created(i) :
         /\ s # <<>>
         /\ Len(s) <= Len(log[i].name)
         /\ s = Suffix(log[i].name, Len(log[i].name) - Len(s) + 1)
         /\ PtrsAfter(i)[s] = log[i].start
              + WireLen(SubSeq(log[i].name, 1, Len(log[i].name) - Len(s)))
         /\ SubSeq(enc.buffer, PtrsAfter(i)[s] + 1, PtrsAfter(i)[s] + 1 + Len(s[1]))
              = <<Len(s[1])>> \o s[1]

C14_Witness ==
  /\ Len(log) >= 3
  /\ Created(1) # {}
  /\ log[2].end = "pointer"
  /\ log[2].res = "Ok"
  /\ Created(2) # {}
  /\ log[3].end = "error"
  /\ Created(3) # {}

PointerAt(i) == log[i].stop - 2

TargetOf(i) == PointerTarget(enc.buffer, log[i].stop)

\* C19: every pointer emit writes targets an offset strictly below the
\* pointer's own, and in a buffer that only successful emits produced a
\* read at every name's start offset terminates with that name's labels
\* decoded, never in unbounded recursion.
C19_PointersGoBack ==
  /\ \A i \in 1..Len(log) : log[i].end = "pointer" => TargetOf(i) < PointerAt(i)
  /\ AllEmitted =>
       \A i \in 1..Len(log) : ReadAt(log[i].start).status \in {"Ok", "DecodeError"}

C19_Witness ==
  /\ AllEmitted
  /\ \E i \in 1..Len(log) :
       /\ log[i].end = "pointer"
       /\ log[i].stop - log[i].start > 2
       /\ Scan(enc.buffer, TargetOf(i), 0).kind = "pointer"
       /\ ReadAt(log[i].start).status = "Ok"
       /\ ReadAt(log[i].start).labels = log[i].name

(***************************************************************************)
(* An encoder of a whole message: other content (header, record data) is   *)
(* written into the same buffer byte by byte with BinEncoder::emit, here a *)
(* block at a time, so that names start around offset 16383, the largest   *)
(* offset a 14-bit pointer can carry.                                      *)
(***************************************************************************)
BlockSizes == {PointerMask - 1, PointerMask, PointerMask + 1}

EmitBlock(e, n) == [e EXCEPT !.buffer = @ \o Fill(0, n)]

BigNames == {<<la>>, <<lz, la>>, <<lbc, la>>}

BigEmitData ==
  /\ EncLen(enc) < PointerMask - 1
  /\ \E n \in BlockSizes : enc' = EmitBlock(enc, n)
  /\ UNCHANGED <<log, dec, got, zone, qry, build, prs, mem>>

BigEmitName == EmitStep(BigNames, MaxBigEmits)

NextBig == BigEmitData \/ BigEmitName

SpecBig == Init /\ [][NextBig]_vars

Referenced(i) == Suffix(log[i].name, FirstKnown(log[i].name, log[i].ptrs))

BeginsAt(labels, o) ==
  /\ o + 1 + Len(Head(labels)) <= EncLen(enc)
  /\ SubSeq(enc.buffer, o + 1, o + 1 + Len(Head(labels)))
       = <<Len(Head(labels))>> \o Head(labels)

\* C15: the low 14 bits of every pointer emit writes are the buffer offset
\* at which the referenced suffix begins, and the dictionary holds no
\* suffix at an offset above 16383, so no pointer carries an offset the
\* 0x3FFF mask truncated.
C15_PointerIsOffset ==
  /\ \A s \in DOMAIN enc.name_pointers : enc.name_pointers[s] <= PointerMask
  /\ \A i \in 1..Len(log) :
       log[i].end = "pointer" =>
         /\ TargetOf(i) = log[i].ptrs[Referenced(i)]
         /\ BeginsAt(Referenced(i), TargetOf(i))

C15_Witness ==
  \E i, j \in 1..Len(log) :
    /\ i < j
    /\ log[i].name = log[j].name
    /\ log[i].start > PointerMask
    /\ log[i].res = "Ok"
    /\ log[j].end = "pointer"
    /\ log[j].stop - log[j].start > 2
    /\ TargetOf(j) = PointerMask

(***************************************************************************)
(* Name values and their shared label vectors.  mem.heap holds every       *)
(* Vec<Rc<String>> that was allocated, an Rc being the index of its        *)
(* vector; mem.names holds the live Name values, each the Rc in its        *)
(* labels field.  Cloning a Name clones the Rc, so the clone and the       *)
(* original hold the same index.  mem.last records the last call together  *)
(* with the labels and the Rc every name had before it.                    *)
(***************************************************************************)
NameLabels == {la, lbc}

LabelVectors == {<<la>>, <<la, lbc>>}

LabelsOf(m, k) == m.heap[m.names[k]]

AllLabels(m) == [k \in 1..Len(m.names) |-> LabelsOf(m, k)]

NewName(m, labels) ==
  [m EXCEPT !.heap = Append(@, labels),
            !.names = Append(@, Len(m.heap) + 1)]

CloneName(m, i) == [m EXCEPT !.names = Append(@, m.names[i])]

Label(m, i, label) ==
  LET new_labels == Append(LabelsOf(m, i), label) IN
  [m EXCEPT !.heap = Append(@, new_labels),
            !.names[i] = Len(m.heap) + 1]

AddLabelInPlace(m, i, label) ==
  [m EXCEPT !.heap[m.names[i]] = Append(@, label)]

AddLabel(m, i, label) ==
  LET new_labels == Append(LabelsOf(m, i), label) IN
  [m EXCEPT !.heap = Append(@, new_labels),
            !.names[i] = Len(m.heap) + 1]

RECURSIVE AppendLoop(_, _, _)
AppendLoop(m, i, rest) ==
  IF rest = <<>> THEN m
  ELSE AppendLoop(AddLabel(m, i, Head(rest)), i, Tail(rest))

AppendName(m, i, j) == AppendLoop(m, i, LabelsOf(m, j))

Called(m, op, i, j, added) ==
  [m EXCEPT !.ops = mem.ops + 1,
            !.last = [op |-> op, self |-> i, other |-> j, added |-> added,
                      before |-> AllLabels(mem), addrs |-> mem.names]]

NameFrame == UNCHANGED <<enc, log, dec, got, zone, qry, build, prs>>

CallNew ==
  /\ mem.ops < MaxNameOps
  /\ Len(mem.names) < MaxNames
  /\ mem' = Called(NewName(mem, <<>>), "new", Len(mem.names) + 1, 0, <<>>)
  /\ NameFrame

CallWithLabels ==
  /\ mem.ops < MaxNameOps
  /\ Len(mem.names) < MaxNames
  /\ \E v \in LabelVectors :
       mem' = Called(NewName(mem, v), "with_labels", Len(mem.names) + 1, 0, v)
  /\ NameFrame

CallClone ==
  /\ mem.ops < MaxNameOps
  /\ Len(mem.names) < MaxNames
  /\ \E i \in 1..Len(mem.names) :
       mem' = Called(CloneName(mem, i), "clone", Len(mem.names) + 1, i, <<>>)
  /\ NameFrame

CallLabel ==
  /\ mem.ops < MaxNameOps
  /\ \E i \in 1..Len(mem.names), l \in NameLabels :
       mem' = Called(Label(mem, i, l), "label", i, 0, <<l>>)
  /\ NameFrame

CallAddLabel ==
  /\ mem.ops < MaxNameOps
  /\ \E i \in 1..Len(mem.names), l \in NameLabels :
       mem' = Called(AddLabel(mem, i, l), "add_label", i, 0, <<l>>)
  /\ NameFrame

CallAppend ==
  /\ mem.ops < MaxNameOps
  /\ \E i \in 1..Len(mem.names), j \in 1..Len(mem.names) :
       /\ i # j
       /\ mem' = Called(AppendName(mem, i, j), "append", i, j,
                        LabelsOf(mem, j))
  /\ NameFrame

InitName ==
  /\ EncoderIdle
  /\ DecoderIdle
  /\ zone = IdleZone
  /\ qry = IdleQuery
  /\ build = "release"
  /\ NamesIdle

NextName ==
  \/ CallNew
  \/ CallWithLabels
  \/ CallClone
  \/ CallLabel
  \/ CallAddLabel
  \/ CallAppend

SpecName == InitName /\ [][NextName]_vars

Mutating == {"label", "add_label", "append"}

\* C17: after label, add_label or append, the name it was called on has
\* its former labels followed by the added ones (for append: the other
\* name's labels, in order), and every other name, clones and names that
\* shared its label vector included, has exactly the labels it had before.
C17_OnlySelfChanges ==
  mem.last.op \in Mutating =>
    /\ Len(mem.names) = Len(mem.last.before)
    /\ LabelsOf(mem, mem.last.self)
         = mem.last.before[mem.last.self] \o mem.last.added
    /\ \A k \in 1..Len(mem.names) :
         k # mem.last.self => LabelsOf(mem, k) = mem.last.before[k]
    /\ mem.last.op = "append" =>
         mem.last.added = mem.last.before[mem.last.other]

C17_Witness ==
  /\ mem.last.op = "append"
  /\ mem.last.addrs[mem.last.self] = mem.last.addrs[mem.last.other]
  /\ Len(mem.last.added) = 2
  /\ LabelsOf(mem, mem.last.self) = <<la, lbc, la, lbc>>
  /\ LabelsOf(mem, mem.last.other) = <<la, lbc>>

(***************************************************************************)
(* Failures inside Query::emit and Query::read.  The enumerations' emit    *)
(* returns an EncodeResult: qry.fail names the one that fails, if any.     *)
(* The decoder reads a message that was cut after any number of bytes.     *)
(***************************************************************************)
EmitFailures == {"none", "type", "class"}

InitQueryErr ==
  /\ EncoderIdle
  /\ DecoderIdle
  /\ zone = IdleZone
  /\ \E q \in Queries, f \in EmitFailures :
       qry = [IdleQuery EXCEPT !.query = q, !.fail = f]
  /\ build = "release"
  /\ NamesIdle

QueryReadCut ==
  /\ qry.emitted # "none"
  /\ qry.read = "none"
  /\ \E k \in 0..EncLen(enc) :
       LET r == QueryRead(NewDecoder(SubSeq(enc.buffer, 1, k))) IN
       /\ dec' = [open |-> TRUE, d |-> r.dec]
       /\ qry' = [qry EXCEPT !.read = r.status, !.got = r.query]
  /\ UNCHANGED <<enc, log, got, zone, build, prs, mem>>

NextQueryErr == QueryEmitStep \/ QueryReadCut

SpecQueryErr == InitQueryErr /\ [][NextQueryErr]_vars

NameBytes == Emit(qry.query.name, NewEncoder)

NameRead == Read(NewDecoder(dec.d.buffer))

TypeRead == CodeRead(RecordTypeCodes, NameRead.dec)

ClassRead == CodeRead(DNSClassCodes, TypeRead.dec)

FirstFailure ==
  IF NameRead.status # "Ok" THEN NameRead
  ELSE IF TypeRead.status # "Ok" THEN TypeRead ELSE ClassRead

\* C18: Query::emit returns the error of the first field that fails to
\* encode and the buffer holds the bytes of the fields before it and what
\* the failing field wrote, nothing of a later field; Query::read returns
\* the error of the first field that fails to decode and leaves the
\* cursor where that field's read left it.
C18_FirstErrorPropagates ==
  /\ qry.emitted # "none" =>
       IF NameBytes.res # "Ok"
       THEN qry.emitted = NameBytes.res /\ enc.buffer = NameBytes.enc.buffer
       ELSE IF qry.fail = "type"
       THEN qry.emitted = "EncodeError" /\ enc.buffer = NameBytes.enc.buffer
       ELSE IF qry.fail = "class"
       THEN /\ qry.emitted = "EncodeError"
            /\ enc.buffer = NameBytes.enc.buffer
                              \o U16Bytes(qry.query.query_type)
       ELSE qry.emitted = "Ok"
  /\ qry.read # "none" =>
       /\ qry.read = FirstFailure.status
       /\ dec.d.index = FirstFailure.dec.index
       /\ qry.read # "Ok" => qry.got = IdleQuery.got

C18_Witness ==
  /\ qry.fail = "class"
  /\ qry.query.name = <<lwww, lexample, lcom>>
  /\ qry.emitted = "EncodeError"
  /\ NameRead.status = "Ok"
  /\ TypeRead.status = "Ok"
  /\ qry.read = "DecodeError"
  /\ dec.d.index = EncLen(enc)

====
